---- MODULE Spec2Model ----
(***************************************************************************)
(* A model of RLLib's Vector.h: DenseVector<T> and SparseVector<T>.        *)
(*                                                                         *)
(* Memory is modelled explicitly.  `heap` maps the address of every live   *)
(* array (new T[n] .. delete[]) to its cells; an object holds addresses,   *)
(* never cells, so that aliasing between two objects is expressible.  A    *)
(* C++ array cell x[i] is cell i + 1 of the TLA+ sequence.                 *)
(*                                                                         *)
(* T is modelled by the integers -MaxVal .. MaxVal, on which the double    *)
(* arithmetic of the code is exact.                                        *)
(***************************************************************************)
EXTENDS Integers, Sequences, FiniteSets, TLC

VARIABLES heap, sp, dn, file, last, obs

vars == <<heap, sp, dn, file, last, obs>>

(***************************************************************************)
(* Bounds of the model.                                                    *)
(***************************************************************************)
\* the declared dimension of the vectors that are constructed
Dim == 3
\* stored values are kept within -MaxVal .. MaxVal
MaxVal == 1
\* the active capacity handed to the constructor ranges over 0 .. MaxInitCap
MaxInitCap == 0
\* the declared dimension of the vectors of the programs with two vectors
\* that both change, or with a file
SmallDim == 2
\* a resurrect is called only when it leaves at most MaxActive active entries
MaxActive == 3

(***************************************************************************)
(* Program constants.                                                      *)
(***************************************************************************)
\* the "absent" marker of the index-position map
Absent == -1
\* the content of a cell of new T[n] that was never written
Indeterminate == -77
\* the default active capacity of the SparseVector constructor
DefaultActiveLength == 10
\* representation tags of the persistence format
DenseTag == 0
SparseTag == 1

Values == (0 - MaxVal) .. MaxVal
NonZero == Values \ {0}
Indexes == 0 .. (Dim - 1)

(***************************************************************************)
(* The machine: the heap and the objects living on it.                     *)
(***************************************************************************)
M == [heap |-> heap, sp |-> sp, dn |-> dn]

Fill(n, x) == [i \in 1 .. n |-> x]

\* The allocator serves every object from an arena of its own: the addresses
\* an object's arrays can get.  Five suffice: three arrays, and two more while
\* allocate holds the old and the new active arrays together.
Arena(t) ==
  CASE t = "a" -> 0 .. 4
    [] t = "b" -> 5 .. 9
    [] t = "d" -> 10 .. 11
    [] t = "e" -> 12 .. 13
    [] t = "c" -> 14 .. 18

\* operator new[], called on behalf of object t: the lowest address of t's
\* arena that holds no live array
NewAddr(m, t) ==
  CHOOSE n \in Arena(t) :
    /\ n \notin DOMAIN m.heap
    /\ \A k \in Arena(t) : k < n => k \in DOMAIN m.heap

Alloc(m, addr, cells) == [m EXCEPT !.heap = (addr :> cells) @@ @]

\* operator delete[]
Free(m, addr) == [m EXCEPT !.heap = [x \in (DOMAIN @) \ {addr} |-> @[x]]]

Cell(m, addr, i) == m.heap[addr][i + 1]

Store(m, addr, i, x) == [m EXCEPT !.heap[addr][i + 1] = x]

\* std::copy(src, src + n, dst)
CopyCells(m, src, n, dst) ==
  [m EXCEPT !.heap[dst] =
     [i \in DOMAIN @ |-> IF i <= n THEN m.heap[src][i] ELSE @[i]]]

\* std::fill(dst + from, dst + to, x)
FillCells(m, dst, from, to, x) ==
  [m EXCEPT !.heap[dst] =
     [i \in DOMAIN @ |-> IF i > from /\ i <= to THEN x ELSE @[i]]]

(***************************************************************************)
(* SparseVector                                                            *)
(***************************************************************************)
SparseVector(m, t, capacity, activeIndexesLength) ==
  LET pIP == NewAddr(m, t)
      m1  == Alloc(m, pIP, Fill(capacity, Indeterminate))
      pAI == NewAddr(m1, t)
      m2  == Alloc(m1, pAI, Fill(activeIndexesLength, Indeterminate))
      pV  == NewAddr(m2, t)
      m3  == Alloc(m2, pV, Fill(activeIndexesLength, Indeterminate))
      obj == [indexesPositionLength |-> capacity,
              activeIndexesLength   |-> activeIndexesLength,
              nbActive              |-> 0,
              indexesPosition       |-> pIP,
              activeIndexes         |-> pAI,
              values                |-> pV]
      m4  == [m3 EXCEPT !.sp = (t :> obj) @@ @]
  IN  FillCells(m4, pIP, 0, capacity, Absent)

dimension(m, t) == m.sp[t].indexesPositionLength

nbActiveEntries(m, t) == m.sp[t].nbActive

indexesPositionAt(m, t, index) == Cell(m, m.sp[t].indexesPosition, index)

activeIndexesAt(m, t, position) == Cell(m, m.sp[t].activeIndexes, position)

valuesAt(m, t, position) == Cell(m, m.sp[t].values, position)

updateEntry(m, t, index, value, position) ==
  Store(m, m.sp[t].values, position, value)

\* a swap that leaves the entry it moves to positionB at its old position in
\* the index-position map
swapEntryStalePosition(m, t, positionA, positionB) ==
  LET indexA == activeIndexesAt(m, t, positionA)
      valueA == valuesAt(m, t, positionA)
      indexB == activeIndexesAt(m, t, positionB)
      valueB == valuesAt(m, t, positionB)
      m2 == Store(m, m.sp[t].indexesPosition, indexB, positionA)
      m3 == Store(m2, m.sp[t].activeIndexes, positionA, indexB)
      m4 == Store(m3, m.sp[t].activeIndexes, positionB, indexA)
      m5 == Store(m4, m.sp[t].values, positionA, valueB)
  IN  Store(m5, m.sp[t].values, positionB, valueA)

swapEntry(m, t, positionA, positionB) ==
  LET indexA == activeIndexesAt(m, t, positionA)
      valueA == valuesAt(m, t, positionA)
      indexB == activeIndexesAt(m, t, positionB)
      valueB == valuesAt(m, t, positionB)
      m1 == Store(m, m.sp[t].indexesPosition, indexA, positionB)
      m2 == Store(m1, m.sp[t].indexesPosition, indexB, positionA)
      m3 == Store(m2, m.sp[t].activeIndexes, positionA, indexB)
      m4 == Store(m3, m.sp[t].activeIndexes, positionB, indexA)
      m5 == Store(m4, m.sp[t].values, positionA, valueB)
  IN  Store(m5, m.sp[t].values, positionB, valueA)

\* removeEntry(position, index)
removeEntryAt(m, t, position, index) ==
  LET m1 == swapEntry(m, t, m.sp[t].nbActive - 1, position)
      m2 == Store(m1, m1.sp[t].indexesPosition,
                  activeIndexesAt(m1, t, m1.sp[t].nbActive - 1), Absent)
  IN  [m2 EXCEPT !.sp[t].nbActive = @ - 1]

\* removeEntry(index)
removeEntry(m, t, index) ==
  LET position == indexesPositionAt(m, t, index)
  IN  IF position # Absent THEN removeEntryAt(m, t, position, index) ELSE m

\* an allocate that forgets to copy the old values into the new array
allocateLosesValues(m, t, sizeRequired) ==
  IF m.sp[t].activeIndexesLength >= sizeRequired
  THEN m
  ELSE LET newCapacity == ((sizeRequired * 3) \div 2) + 1
           old  == m.sp[t]
           pAI  == NewAddr(m, t)
           m1   == Alloc(m, pAI, Fill(newCapacity, Indeterminate))
           pV   == NewAddr(m1, t)
           m2   == Alloc(m1, pV, Fill(newCapacity, Indeterminate))
           m3   == CopyCells(m2, old.activeIndexes, old.activeIndexesLength, pAI)
           m4   == FillCells(m3, pAI, old.activeIndexesLength, newCapacity, 0)
           m6   == FillCells(m4, pV, old.activeIndexesLength, newCapacity, 0)
           m7   == [m6 EXCEPT !.sp[t].activeIndexesLength = newCapacity]
           m8   == Free(Free(m7, old.activeIndexes), old.values)
       IN  [m8 EXCEPT !.sp[t].activeIndexes = pAI, !.sp[t].values = pV]

allocate(m, t, sizeRequired) ==
  IF m.sp[t].activeIndexesLength >= sizeRequired
  THEN m
  ELSE LET newCapacity == ((sizeRequired * 3) \div 2) + 1
           old  == m.sp[t]
           pAI  == NewAddr(m, t)
           m1   == Alloc(m, pAI, Fill(newCapacity, Indeterminate))
           pV   == NewAddr(m1, t)
           m2   == Alloc(m1, pV, Fill(newCapacity, Indeterminate))
           m3   == CopyCells(m2, old.activeIndexes, old.activeIndexesLength, pAI)
           m4   == FillCells(m3, pAI, old.activeIndexesLength, newCapacity, 0)
           m5   == CopyCells(m4, old.values, old.activeIndexesLength, pV)
           m6   == FillCells(m5, pV, old.activeIndexesLength, newCapacity, 0)
           m7   == [m6 EXCEPT !.sp[t].activeIndexesLength = newCapacity]
           m8   == Free(Free(m7, old.activeIndexes), old.values)
       IN  [m8 EXCEPT !.sp[t].activeIndexes = pAI, !.sp[t].values = pV]

appendEntry(m, t, index, value) ==
  LET m1 == allocate(m, t, m.sp[t].nbActive + 1)
      nb == m1.sp[t].nbActive
      m2 == Store(m1, m1.sp[t].activeIndexes, nb, index)
      m3 == Store(m2, m1.sp[t].values, nb, value)
      m4 == Store(m3, m1.sp[t].indexesPosition, index, nb)
  IN  [m4 EXCEPT !.sp[t].nbActive = @ + 1]

insertEntry(m, t, index, value) == appendEntry(m, t, index, value)

insertLast(m, t, value) ==
  appendEntry(m, t, m.sp[t].indexesPositionLength - 1, value)

getEntry(m, t, index) ==
  LET position == indexesPositionAt(m, t, index)
  IN  IF position # Absent THEN valuesAt(m, t, position) ELSE 0

setNonZeroEntry(m, t, index, value) ==
  LET position == indexesPositionAt(m, t, index)
  IN  IF position # Absent
      THEN updateEntry(m, t, index, value, position)
      ELSE insertEntry(m, t, index, value)

\* a setEntry that stores a zero like any other value
setEntryStoresZero(m, t, index, value) == setNonZeroEntry(m, t, index, value)

setEntry(m, t, index, value) ==
  IF value = 0 THEN removeEntry(m, t, index)
               ELSE setNonZeroEntry(m, t, index, value)

RECURSIVE clearLoop(_, _, _)
clearLoop(m, t, i) ==
  IF i < m.sp[t].nbActive
  THEN clearLoop(Store(m, m.sp[t].indexesPosition,
                       activeIndexesAt(m, t, i), Absent), t, i + 1)
  ELSE m

clear(m, t) == [clearLoop(m, t, 0) EXCEPT !.sp[t].nbActive = 0]

(***************************************************************************)
(* How a call ends: it returns ("ok", with its result), an assert of it     *)
(* fails ("assert"), it calls exit(-1) ("exit"), or it runs into undefined *)
(* behaviour ("undefined": an access outside an array).                    *)
(***************************************************************************)
Ok(m) == [m |-> m, status |-> "ok", ret |-> 0]

Returns(m, x) == [m |-> m, status |-> "ok", ret |-> x]

AssertionFailed(m) == [m |-> m, status |-> "assert", ret |-> 0]

Exits(m) == [m |-> m, status |-> "exit", ret |-> 0]

Undefined(m) == [m |-> m, status |-> "undefined", ret |-> 0]

\* index is a cell of t's index-position map
InMap(m, t, index) == index >= 0 /\ index < m.sp[t].indexesPositionLength

\* a loop that adds the values of that without the factor
RECURSIVE addToSelfLoopWithoutFactor(_, _, _, _, _)
addToSelfLoopWithoutFactor(m, t, factor, that, position) ==
  IF position < m.sp[that].nbActive
  THEN LET index == activeIndexesAt(m, that, position)
       IN  addToSelfLoopWithoutFactor(
             setNonZeroEntry(m, t, index,
               getEntry(m, t, index) + valuesAt(m, that, position)),
             t, factor, that, position + 1)
  ELSE m

RECURSIVE addToSelfLoop(_, _, _, _, _)
addToSelfLoop(m, t, factor, that, position) ==
  IF position < m.sp[that].nbActive
  THEN LET index == activeIndexesAt(m, that, position)
       IN  addToSelfLoop(
             setNonZeroEntry(m, t, index,
               getEntry(m, t, index) + factor * valuesAt(m, that, position)),
             t, factor, that, position + 1)
  ELSE m

addToSelf(m, t, factor, that) ==
  IF dimension(m, t) # dimension(m, that)
  THEN AssertionFailed(m)
  ELSE Ok(addToSelfLoop(m, t, factor, that, 0))

substractToSelf(m, t, that) == addToSelf(m, t, -1, that)

multiplyToSelf(m, t, factor) ==
  IF factor = 0
  THEN clear(m, t)
  ELSE [m EXCEPT !.heap[m.sp[t].values] =
          [i \in DOMAIN @ |-> IF i <= m.sp[t].nbActive THEN @[i] * factor ELSE @[i]]]

\* a loop that moves on after a removal, past the entry that took the place
RECURSIVE ebeMultiplyToSelfLoopSkips(_, _, _, _)
ebeMultiplyToSelfLoopSkips(m, t, that, position) ==
  IF position < m.sp[t].nbActive
  THEN LET index == activeIndexesAt(m, t, position)
           value == valuesAt(m, t, position) * getEntry(m, that, index)
       IN  IF value # 0
           THEN ebeMultiplyToSelfLoopSkips(updateEntry(m, t, index, value, position),
                                           t, that, position + 1)
           ELSE ebeMultiplyToSelfLoopSkips(removeEntryAt(m, t, position, index),
                                           t, that, position + 1)
  ELSE m

RECURSIVE ebeMultiplyToSelfLoop(_, _, _, _)
ebeMultiplyToSelfLoop(m, t, that, position) ==
  IF position < m.sp[t].nbActive
  THEN LET index == activeIndexesAt(m, t, position)
           value == valuesAt(m, t, position) * getEntry(m, that, index)
       IN  IF value # 0
           THEN ebeMultiplyToSelfLoop(updateEntry(m, t, index, value, position),
                                      t, that, position + 1)
           ELSE ebeMultiplyToSelfLoop(removeEntryAt(m, t, position, index),
                                      t, that, position)
  ELSE m

ebeMultiplyToSelf(m, t, that) ==
  IF dimension(m, t) # dimension(m, that)
  THEN AssertionFailed(m)
  ELSE Ok(ebeMultiplyToSelfLoop(m, t, that, 0))

RECURSIVE ebeAddConstantToSelfLoop(_, _, _, _)
ebeAddConstantToSelfLoop(m, t, value, index) ==
  IF index < m.sp[t].indexesPositionLength
  THEN ebeAddConstantToSelfLoop(
         setNonZeroEntry(m, t, index, value + getEntry(m, t, index)),
         t, value, index + 1)
  ELSE m

ebeAddConstantToSelf(m, t, value) == ebeAddConstantToSelfLoop(m, t, value, 0)

\* a dot that looks the other operand up by position instead of by index
RECURSIVE dotOverByPosition(_, _, _, _)
dotOverByPosition(m, this, that, position) ==
  IF position < m.sp[this].nbActive
  THEN getEntry(m, that, position) * valuesAt(m, this, position)
       + dotOverByPosition(m, this, that, position + 1)
  ELSE 0

\* dot(_this, _that), the private helper
RECURSIVE dotOver(_, _, _, _)
dotOver(m, this, that, position) ==
  IF position < m.sp[this].nbActive
  THEN getEntry(m, that, activeIndexesAt(m, this, position))
         * valuesAt(m, this, position)
       + dotOver(m, this, that, position + 1)
  ELSE 0

\* dot(that), the public operation
dot(m, t, that) ==
  IF dimension(m, t) # dimension(m, that)
  THEN AssertionFailed(m)
  ELSE IF m.sp[t].nbActive < m.sp[that].nbActive
       THEN Returns(m, dotOver(m, t, that, 0))
       ELSE Returns(m, dotOver(m, that, t, 0))

RECURSIVE sumFrom(_, _, _)
sumFrom(m, t, position) ==
  IF position < m.sp[t].nbActive
  THEN valuesAt(m, t, position) + sumFrom(m, t, position + 1)
  ELSE 0

sum(m, t) == sumFrom(m, t, 0)

RECURSIVE setLoop(_, _, _, _)
setLoop(m, t, that, i) ==
  IF i < m.sp[that].nbActive
  THEN setLoop(setNonZeroEntry(m, t, activeIndexesAt(m, that, i),
                               valuesAt(m, that, i)), t, that, i + 1)
  ELSE m

\* set(that)
set(m, t, that) ==
  IF dimension(m, t) # dimension(m, that)
  THEN AssertionFailed(m)
  ELSE Ok(setLoop(clear(m, t), t, that, 0))

RECURSIVE setValueLoop(_, _, _, _, _)
setValueLoop(m, t, that, value, i) ==
  IF i < m.sp[that].nbActive
  THEN setValueLoop(setNonZeroEntry(m, t, activeIndexesAt(m, that, i), value),
                    t, that, value, i + 1)
  ELSE m

\* set(that, value)
setValue(m, t, that, value) ==
  IF dimension(m, t) # dimension(m, that)
  THEN AssertionFailed(m)
  ELSE Ok(setValueLoop(clear(m, t), t, that, value, 0))

RECURSIVE setAllLoop(_, _, _, _)
setAllLoop(m, t, value, index) ==
  IF index < m.sp[t].indexesPositionLength
  THEN setAllLoop(setNonZeroEntry(m, t, index, value), t, value, index + 1)
  ELSE m

\* set(value)
setAll(m, t, value) == setAllLoop(clear(m, t), t, value, 0)

\* values[position] /= that.getEntry(index) for every active position; the
\* method has no assert, and getEntry none either: an active index of this
\* outside that's index-position map is read outside that's array
RECURSIVE ebeDivideToSelfLoop(_, _, _, _)
ebeDivideToSelfLoop(m, t, that, position) ==
  IF position < m.sp[t].nbActive
  THEN LET index == activeIndexesAt(m, t, position)
       IN  ebeDivideToSelfLoop(
             updateEntry(m, t, index,
                         valuesAt(m, t, position) \div getEntry(m, that, index),
                         position),
             t, that, position + 1)
  ELSE m

\* the quotients ebeDivideToSelf computes are finite and exact
Divides(m, t, that) ==
  \A p \in 0 .. (m.sp[t].nbActive - 1) :
    LET index == activeIndexesAt(m, t, p)
    IN  InMap(m, that, index) =>
          /\ getEntry(m, that, index) # 0
          /\ valuesAt(m, t, p) % getEntry(m, that, index) = 0

ebeDivideToSelf(m, t, that) ==
  IF \E p \in 0 .. (m.sp[t].nbActive - 1) :
       ~InMap(m, that, activeIndexesAt(m, t, p))
  THEN Undefined(m)
  ELSE Ok(ebeDivideToSelfLoop(m, t, that, 0))

(***************************************************************************)
(* SparseVector: copy constructor, assignment, destructor.                 *)
(***************************************************************************)
\* the member-initialiser list and body of SparseVector(const SparseVector&):
\* three new arrays of that's lengths, the whole map and the live pairs copied
SparseVectorCopy(m, t, that) ==
  LET src == m.sp[that]
      pIP == NewAddr(m, t)
      m1  == Alloc(m, pIP, Fill(src.indexesPositionLength, Indeterminate))
      pAI == NewAddr(m1, t)
      m2  == Alloc(m1, pAI, Fill(src.activeIndexesLength, Indeterminate))
      pV  == NewAddr(m2, t)
      m3  == Alloc(m2, pV, Fill(src.activeIndexesLength, Indeterminate))
      obj == [indexesPositionLength |-> src.indexesPositionLength,
              activeIndexesLength   |-> src.activeIndexesLength,
              nbActive              |-> src.nbActive,
              indexesPosition       |-> pIP,
              activeIndexes         |-> pAI,
              values                |-> pV]
      m4  == [m3 EXCEPT !.sp = (t :> obj) @@ [x \in (DOMAIN @) \ {t} |-> @[x]]]
      m5  == CopyCells(m4, src.indexesPosition, src.indexesPositionLength, pIP)
      m6  == CopyCells(m5, src.activeIndexes, src.nbActive, pAI)
  IN  CopyCells(m6, src.values, src.nbActive, pV)

\* ~SparseVector without the end of the object's life: the three delete[]
SparseVectorDeleted(m, t) ==
  Free(Free(Free(m, m.sp[t].indexesPosition), m.sp[t].activeIndexes),
       m.sp[t].values)

\* operator=: nothing on self-assignment, else delete and copy
SparseAssign(m, t, that) ==
  IF t = that THEN m ELSE SparseVectorCopy(SparseVectorDeleted(m, t), t, that)

(***************************************************************************)
(* DenseVector: an object [capacity, data], data the address of capacity   *)
(* cells.                                                                  *)
(***************************************************************************)
DenseVector(m, t, capacity) ==
  LET p  == NewAddr(m, t)
      m1 == Alloc(m, p, Fill(capacity, Indeterminate))
      m2 == [m1 EXCEPT !.dn = (t :> [capacity |-> capacity, data |-> p]) @@ @]
  IN  FillCells(m2, p, 0, capacity, 0)

capacityOf(m, t) == m.dn[t].capacity

dataAt(m, t, i) == Cell(m, m.dn[t].data, i)

\* DenseVector(const DenseVector&): a new array of that's capacity, copied
DenseVectorCopy(m, t, that) ==
  LET src == m.dn[that]
      p   == NewAddr(m, t)
      m1  == Alloc(m, p, Fill(src.capacity, Indeterminate))
      m2  == [m1 EXCEPT !.dn = (t :> [capacity |-> src.capacity, data |-> p])
                                  @@ [x \in (DOMAIN @) \ {t} |-> @[x]]]
  IN  CopyCells(m2, src.data, src.capacity, p)

\* the assignment the compiler would generate: the members are copied, the
\* two objects share one array
DenseAssignMemberwise(m, t, that) ==
  [m EXCEPT !.dn[t] = m.dn[that]]

\* operator=: nothing on self-assignment, else delete[] data and copy
DenseAssign(m, t, that) ==
  IF t = that THEN m ELSE DenseVectorCopy(Free(m, m.dn[t].data), t, that)

RECURSIVE denseDotFrom(_, _, _, _)
denseDotFrom(m, t, that, i) ==
  IF i < capacityOf(m, t)
  THEN dataAt(m, t, i) * dataAt(m, that, i) + denseDotFrom(m, t, that, i + 1)
  ELSE 0

\* double operator*(const DenseVector&)
denseDot(m, t, that) ==
  IF capacityOf(m, t) # capacityOf(m, that)
  THEN AssertionFailed(m)
  ELSE Returns(m, denseDotFrom(m, t, that, 0))

\* operator*(const double& d)
denseTimes(m, t, d) ==
  [m EXCEPT !.heap[m.dn[t].data] = [i \in DOMAIN @ |-> @[i] * d]]

\* data[i] = data[i] + sign * that.data[i] for i = from, from + 1, ...; the
\* loop reads that.data[i] after the cells before i were written
RECURSIVE denseAddLoop(_, _, _, _, _)
denseAddLoop(m, t, that, sign, i) ==
  IF i < capacityOf(m, t)
  THEN denseAddLoop(Store(m, m.dn[t].data, i,
                          dataAt(m, t, i) + sign * dataAt(m, that, i)),
                    t, that, sign, i + 1)
  ELSE m

\* operator+
densePlus(m, t, that) ==
  IF capacityOf(m, t) # capacityOf(m, that)
  THEN AssertionFailed(m)
  ELSE Ok(denseAddLoop(m, t, that, 1, 0))

\* operator-
denseMinus(m, t, that) ==
  IF capacityOf(m, t) # capacityOf(m, that)
  THEN AssertionFailed(m)
  ELSE Ok(denseAddLoop(m, t, that, -1, 0))

\* operator[] and at, read through the reference they return
denseAt(m, t, index) ==
  IF index >= 0 /\ index < capacityOf(m, t)
  THEN Returns(m, dataAt(m, t, index))
  ELSE AssertionFailed(m)

\* operator[] and at, written through the reference they return
denseAtStore(m, t, index, value) ==
  IF index >= 0 /\ index < capacityOf(m, t)
  THEN Ok(Store(m, m.dn[t].data, index, value))
  ELSE AssertionFailed(m)

denseClear(m, t) == FillCells(m, m.dn[t].data, 0, capacityOf(m, t), 0)

\* set(const DenseVector&)
denseSet(m, t, that) ==
  IF capacityOf(m, t) # capacityOf(m, that)
  THEN AssertionFailed(m)
  ELSE Ok(CopyCells(m, m.dn[that].data, capacityOf(m, t), m.dn[t].data))

DenseContent(m, t) == [k \in 0 .. (capacityOf(m, t) - 1) |-> dataAt(m, t, k)]

(***************************************************************************)
(* Persistence.  The file of the program is a record: whether it exists,   *)
(* whether it can be opened for writing, and its content, a sequence of    *)
(* raw items [width, v]: write puts the sizeof(value) bytes of value, read *)
(* takes sizeof(value) bytes.                                              *)
(***************************************************************************)
IntWidth == 4
TWidth == 8

write(words, width, value) == Append(words, [width |-> width, v |-> value])

\* the item-th read of a resurrect, of a value of the given width; a read
\* that fails or is not aligned with an item leaves the value indeterminate
read(words, item, width) ==
  IF item <= Len(words) /\ words[item].width = width
  THEN words[item].v
  ELSE Indeterminate

RECURSIVE writeCells(_, _, _, _, _, _)
writeCells(words, m, addr, width, position, n) ==
  IF position < n
  THEN writeCells(write(words, width, Cell(m, addr, position)),
                  m, addr, width, position + 1, n)
  ELSE words

\* what SparseVector::persist writes: tag, indexesPositionLength, nbActive,
\* the active indexes, the active values
sparseImage(m, t) ==
  LET w1 == write(<< >>, IntWidth, SparseTag)
      w2 == write(w1, IntWidth, m.sp[t].indexesPositionLength)
      w3 == write(w2, IntWidth, m.sp[t].nbActive)
      w4 == writeCells(w3, m, m.sp[t].activeIndexes, IntWidth, 0, m.sp[t].nbActive)
  IN  writeCells(w4, m, m.sp[t].values, TWidth, 0, m.sp[t].nbActive)

\* SparseVector::persist: the file after the call
persist(m, t, f) ==
  IF f.writable
  THEN [f EXCEPT !.exists = TRUE, !.words = sparseImage(m, t)]
  ELSE f

\* a resurrect that inserts the pairs at their positions in the file
RECURSIVE resurrectLoopByPosition(_, _, _, _, _)
resurrectLoopByPosition(m, t, words, rnbActive, position) ==
  IF position < rnbActive
  THEN resurrectLoopByPosition(
         insertEntry(m, t, position,
                     read(words, 4 + rnbActive + position, TWidth)),
         t, words, rnbActive, position + 1)
  ELSE m

\* the second loop of resurrect: insertEntry(ractiveIndexes[position], rvalue)
RECURSIVE resurrectLoop(_, _, _, _, _)
resurrectLoop(m, t, words, rnbActive, position) ==
  IF position < rnbActive
  THEN resurrectLoop(
         insertEntry(m, t, read(words, 4 + position, IntWidth),
                     read(words, 4 + rnbActive + position, TWidth)),
         t, words, rnbActive, position + 1)
  ELSE m

\* a resurrect without the assert on the representation tag
resurrectUnchecked(m, t, f) ==
  IF ~f.exists
  THEN Exits(m)
  ELSE LET rcapacity == read(f.words, 2, IntWidth)
           rnbActive == read(f.words, 3, IntWidth)
       IN  IF m.sp[t].indexesPositionLength # rcapacity
           THEN AssertionFailed(m)
           ELSE Ok(resurrectLoop(m, t, f.words, rnbActive, 0))

\* SparseVector::resurrect
resurrect(m, t, f) ==
  IF ~f.exists
  THEN Exits(m)
  ELSE LET vectorType == read(f.words, 1, IntWidth)
           rcapacity  == read(f.words, 2, IntWidth)
           rnbActive  == read(f.words, 3, IntWidth)
       IN  IF vectorType # SparseTag
           THEN AssertionFailed(m)
           ELSE IF m.sp[t].indexesPositionLength # rcapacity
           THEN AssertionFailed(m)
           ELSE Ok(resurrectLoop(m, t, f.words, rnbActive, 0))

\* what DenseVector::persist writes: tag, capacity, the cells
denseImage(m, t) ==
  LET w1 == write(<< >>, IntWidth, DenseTag)
      w2 == write(w1, IntWidth, capacityOf(m, t))
  IN  writeCells(w2, m, m.dn[t].data, TWidth, 0, capacityOf(m, t))

\* DenseVector::persist: the file after the call
densePersist(m, t, f) ==
  IF f.writable
  THEN [f EXCEPT !.exists = TRUE, !.words = denseImage(m, t)]
  ELSE f

RECURSIVE denseResurrectLoop(_, _, _, _)
denseResurrectLoop(m, t, words, j) ==
  IF j < capacityOf(m, t)
  THEN denseResurrectLoop(Store(m, m.dn[t].data, j, read(words, 3 + j, TWidth)),
                          t, words, j + 1)
  ELSE m

\* DenseVector::resurrect
denseResurrect(m, t, f) ==
  IF ~f.exists
  THEN Exits(m)
  ELSE LET vectorType == read(f.words, 1, IntWidth)
           rcapacity  == read(f.words, 2, IntWidth)
       IN  IF vectorType # DenseTag
           THEN AssertionFailed(m)
           ELSE IF capacityOf(m, t) # rcapacity
           THEN AssertionFailed(m)
           ELSE Ok(denseResurrectLoop(m, t, f.words, 0))

(***************************************************************************)
(* The observable content of a sparse vector, and the bound on it.         *)
(***************************************************************************)
\* the logical vector: what getEntry answers for every index
Content(m, t) == [k \in 0 .. (dimension(m, t) - 1) |-> getEntry(m, t, k)]

Positions(m, t) == 0 .. (m.sp[t].nbActive - 1)

\* the indexes among activeIndexes[0 .. nbActive)
ActiveSet(m, t) == {activeIndexesAt(m, t, p) : p \in Positions(m, t)}

ValuesBounded(m) ==
  /\ \A t \in DOMAIN m.sp : \A p \in Positions(m, t) :
       valuesAt(m, t, p) \in Values \cup {Indeterminate}
  /\ \A t \in DOMAIN m.dn : \A k \in 0 .. (m.dn[t].capacity - 1) :
       Cell(m, m.dn[t].data, k) \in Values \cup {Indeterminate}

(***************************************************************************)
(* What the last call was: its name, receiver and other operand, for       *)
(* removeEntry the position it removed (Absent: none), the value the call  *)
(* returned and how it ended.  A call that did not return ends the program.*)
(* A program that does not observe its calls records the other operand     *)
(* only of dot.                                                            *)
(***************************************************************************)
NoCall == [op |-> "new", this |-> "", that |-> "", removed |-> Absent,
           ret |-> 0, status |-> "ok"]

Running == last.status = "ok"

(***************************************************************************)
(* A program that observes its calls (obs.on) also records of the last     *)
(* call: its index and value arguments, the position the index had before  *)
(* the call, and whether the call reallocated the receiver's active arrays.*)
(***************************************************************************)
Unobserved == [on |-> FALSE, idx |-> 0, val |-> 0, pos |-> Absent, grew |-> FALSE]

Observing == [Unobserved EXCEPT !.on = TRUE]

\* The cells of the active arrays at positions >= nbActive are dead storage:
\* whatever an operation left there (a removed pair, the zeros of allocate,
\* the garbage of new[]) is indeterminate to the next operation.
DeadCellsForgotten(m) ==
  [m EXCEPT !.heap =
     [x \in DOMAIN @ |->
        IF \E t \in DOMAIN m.sp : x \in {m.sp[t].activeIndexes, m.sp[t].values}
        THEN LET t == CHOOSE u \in DOMAIN m.sp :
                        x \in {m.sp[u].activeIndexes, m.sp[u].values}
             IN  [i \in DOMAIN @[x] |->
                    IF i <= m.sp[t].nbActive THEN @[x][i] ELSE Indeterminate]
        ELSE @[x]]]

\* the machine becomes m2
Becomes(m2) ==
  LET m3 == DeadCellsForgotten(m2)
  IN  /\ heap' = m3.heap
      /\ sp' = m3.sp
      /\ dn' = m3.dn

\* the position index had in the sparse vector t before the call
PositionBefore(t, index) ==
  IF t \in DOMAIN sp /\ InMap(M, t, index)
  THEN indexesPositionAt(M, t, index)
  ELSE Absent

\* How undefined behaviour ends: the process is killed ("signal"), or the
\* call returns after accesses outside its arrays ("returned"); the program
\* is not followed further.
Outcomes(status) ==
  IF status = "undefined" THEN {"signal", "returned"} ELSE {status}

\* the call op(...) on the object `this` ends as `out` says
Call(op, this, that, idx, val, out) ==
  /\ Running
  /\ ValuesBounded(out.m)
  /\ Becomes(out.m)
  /\ \E s \in Outcomes(out.status) :
       last' = [op |-> op, this |-> this,
                that |-> IF obs.on \/ op = "dot" THEN that ELSE "",
                removed |-> IF op = "removeEntry"
                            THEN PositionBefore(this, idx) ELSE Absent,
                ret |-> out.ret, status |-> s]
  /\ obs' = IF obs.on
            THEN [on |-> TRUE, idx |-> idx, val |-> val,
                  pos |-> IF op \in {"setEntry", "removeEntry"}
                          THEN PositionBefore(this, idx) ELSE Absent,
                  grew |-> /\ this \in DOMAIN sp
                           /\ out.m.sp[this].activeIndexesLength
                                # sp[this].activeIndexesLength]
            ELSE obs

\* a call that leaves the file alone
Do(op, this, that, idx, val, out) ==
  /\ Call(op, this, that, idx, val, out)
  /\ UNCHANGED file

(***************************************************************************)
(* Operations of the sparse program.                                       *)
(***************************************************************************)
\* setEntry, removeEntry and getEntry read indexesPosition[index] without a
\* check: an index outside the map is an access outside the array
SetEntry(t, index, value) ==
  Do("setEntry", t, "", index, value,
     IF InMap(M, t, index) THEN Ok(setEntry(M, t, index, value)) ELSE Undefined(M))

RemoveEntry(t, index) ==
  Do("removeEntry", t, "", index, 0,
     IF InMap(M, t, index) THEN Ok(removeEntry(M, t, index)) ELSE Undefined(M))

Clear(t) == Do("clear", t, "", 0, 0, Ok(clear(M, t)))

GetEntry(t, index) ==
  Do("getEntry", t, "", index, 0,
     IF InMap(M, t, index) THEN Returns(M, getEntry(M, t, index)) ELSE Undefined(M))

AddToSelf(t, factor, that) ==
  Do("addToSelf", t, that, 0, 0, addToSelf(M, t, factor, that))

SubstractToSelf(t, that) ==
  Do("substractToSelf", t, that, 0, 0, substractToSelf(M, t, that))

MultiplyToSelf(t, factor) ==
  Do("multiplyToSelf", t, "", 0, 0, Ok(multiplyToSelf(M, t, factor)))

EbeMultiplyToSelf(t, that) ==
  Do("ebeMultiplyToSelf", t, that, 0, 0, ebeMultiplyToSelf(M, t, that))

EbeAddConstantToSelf(t, value) ==
  Do("ebeAddConstantToSelf", t, "", 0, 0, Ok(ebeAddConstantToSelf(M, t, value)))

Dot(t, that) == Do("dot", t, that, 0, 0, dot(M, t, that))

Set(t, that) == Do("set", t, that, 0, 0, set(M, t, that))

SetValue(t, that, value) ==
  Do("setValue", t, that, 0, 0, setValue(M, t, that, value))

SetAll(t, value) == Do("setAll", t, "", 0, 0, Ok(setAll(M, t, value)))


EbeDivideToSelf(t, that) ==
  /\ Divides(M, t, that)
  /\ Do("ebeDivideToSelf", t, that, 0, 0, ebeDivideToSelf(M, t, that))

(***************************************************************************)
(* Operations on sparse vectors that come and go, and on dense vectors.    *)
(***************************************************************************)
\* SparseVector<T> t(that);
SparseCopy(t, that) ==
  /\ that \in DOMAIN sp
  /\ t \notin DOMAIN sp
  /\ Do("copy", t, that, 0, 0, Ok(SparseVectorCopy(M, t, that)))

\* t = that;
SparseAssignment(t, that) ==
  /\ {t, that} \subseteq DOMAIN sp
  /\ Do("assign", t, that, 0, 0, Ok(SparseAssign(M, t, that)))

\* DenseVector<T> t(that);
DenseCopy(t, that) ==
  /\ that \in DOMAIN dn
  /\ t \notin DOMAIN dn
  /\ Do("copy", t, that, 0, 0, Ok(DenseVectorCopy(M, t, that)))

\* t = that;
DenseAssignment(t, that) ==
  /\ {t, that} \subseteq DOMAIN dn
  /\ Do("assign", t, that, 0, 0, Ok(DenseAssign(M, t, that)))

\* t[index] = value;
DenseStore(t, index, value) ==
  /\ t \in DOMAIN dn
  /\ Do("at", t, "", index, value, denseAtStore(M, t, index, value))

\* t[index], t.at(index)
DenseAt(t, index) ==
  /\ t \in DOMAIN dn
  /\ Do("at", t, "", index, 0, denseAt(M, t, index))

DenseDot(t, that) ==
  /\ {t, that} \subseteq DOMAIN dn
  /\ Do("dot", t, that, 0, 0, denseDot(M, t, that))

DenseTimes(t, d) ==
  /\ t \in DOMAIN dn
  /\ Do("times", t, "", 0, 0, Ok(denseTimes(M, t, d)))

DensePlus(t, that) ==
  /\ {t, that} \subseteq DOMAIN dn
  /\ Do("plus", t, that, 0, 0, densePlus(M, t, that))

DenseMinus(t, that) ==
  /\ {t, that} \subseteq DOMAIN dn
  /\ Do("minus", t, that, 0, 0, denseMinus(M, t, that))

DenseClear(t) ==
  /\ t \in DOMAIN dn
  /\ Do("clear", t, "", 0, 0, Ok(denseClear(M, t)))

DenseSet(t, that) ==
  /\ {t, that} \subseteq DOMAIN dn
  /\ Do("set", t, that, 0, 0, denseSet(M, t, that))

(***************************************************************************)
(* Persistence.                                                            *)
(***************************************************************************)
Persist(t) ==
  /\ t \in DOMAIN sp
  /\ Call("persist", t, "", 0, 0, Ok(M))
  /\ file' = persist(M, t, file)

\* resurrect into a sparse vector that holds no entry
Resurrect(t) ==
  /\ t \in DOMAIN sp
  /\ nbActiveEntries(M, t) = 0
  /\ Do("resurrect", t, "", 0, 0, resurrect(M, t, file))

DensePersist(t) ==
  /\ t \in DOMAIN dn
  /\ Call("persist", t, "", 0, 0, Ok(M))
  /\ file' = densePersist(M, t, file)

DenseResurrect(t) ==
  /\ t \in DOMAIN dn
  /\ Do("resurrect", t, "", 0, 0, denseResurrect(M, t, file))

\* resurrect into a sparse vector in any state
ResurrectInto(t) ==
  /\ t \in DOMAIN sp
  /\ file.exists =>
       nbActiveEntries(M, t) + read(file.words, 3, IntWidth) <= MaxActive
  /\ Do("resurrect", t, "", 0, 0, resurrect(M, t, file))
(***************************************************************************)
(* The single-vector program: a sparse vector a of dimension Dim on which  *)
(* every mutator is called, a itself being the other operand; it observes  *)
(* its calls.                                                              *)
(***************************************************************************)
EmptyMachine == [heap |-> << >>, sp |-> << >>, dn |-> << >>]

\* no file yet, in a directory where one can be created
NoFile == [exists |-> FALSE, writable |-> TRUE, words |-> << >>]

StartsWithFile(m, o, f) ==
  /\ heap = m.heap
  /\ sp = m.sp
  /\ dn = m.dn
  /\ file = f
  /\ last = NoCall
  /\ obs = o

Starts(m, o) == StartsWithFile(m, o, NoFile)

Init ==
  \E ca \in 0 .. MaxInitCap :
    Starts(SparseVector(EmptyMachine, "a", Dim, ca), Observing)

Next ==
  \/ \E k \in Indexes, v \in Values : SetEntry("a", k, v)
  \/ \E k \in Indexes : RemoveEntry("a", k)
  \/ Clear("a")
  \/ \E f \in Values : AddToSelf("a", f, "a")
  \/ SubstractToSelf("a", "a")
  \/ \E f \in Values : MultiplyToSelf("a", f)
  \/ EbeMultiplyToSelf("a", "a")
  \/ \E v \in Values : EbeAddConstantToSelf("a", v)
  \/ Set("a", "a")
  \/ \E v \in Values : SetValue("a", "a", v)
  \/ \E v \in Values : SetAll("a", v)

Spec == Init /\ [][Next]_vars

(***************************************************************************)
(* The two-vector program: vector a, on which every mutator is called, and *)
(* vector b, the other operand: a feature vector built with setEntry.      *)
(***************************************************************************)
InitPair ==
  \E ca \in 0 .. MaxInitCap :
    Starts(SparseVector(SparseVector(EmptyMachine, "a", Dim, ca), "b", Dim,
                        DefaultActiveLength), Unobserved)

NextPair ==
  \/ \E k \in Indexes, v \in Values : SetEntry("a", k, v)
  \/ \E k \in Indexes, v \in {0, 1} : SetEntry("b", k, v)
  \/ \E k \in Indexes : RemoveEntry("a", k)
  \/ Clear("a")
  \/ \E that \in {"a", "b"}, f \in Values : AddToSelf("a", f, that)
  \/ \E that \in {"a", "b"} : SubstractToSelf("a", that)
  \/ \E f \in Values : MultiplyToSelf("a", f)
  \/ \E that \in {"a", "b"} : EbeMultiplyToSelf("a", that)
  \/ \E v \in Values : EbeAddConstantToSelf("a", v)
  \/ \E that \in {"a", "b"} : Set("a", that)
  \/ \E that \in {"a", "b"}, v \in Values : SetValue("a", that, v)
  \/ \E v \in Values : SetAll("a", v)
  \/ Dot("a", "b")

SpecPair == InitPair /\ [][NextPair]_vars


(***************************************************************************)
(* The copying program.  It is either sparse: a vector a, a vector b       *)
(* copy-constructed from a, assignments between them in both directions    *)
(* and to themselves, and mutation of both; or the same with the dense     *)
(* vectors d and e.                                                        *)
(***************************************************************************)
SmallIndexes == 0 .. (SmallDim - 1)

InitCopy ==
  \/ \E ca \in 0 .. MaxInitCap :
       Starts(SparseVector(EmptyMachine, "a", SmallDim, ca), Observing)
  \/ Starts(DenseVector(EmptyMachine, "d", SmallDim), Observing)

NextCopy ==
  \/ SparseCopy("b", "a")
  \/ \E t \in {"a", "b"}, that \in {"a", "b"} : SparseAssignment(t, that)
  \/ \E t \in {"a", "b"}, k \in SmallIndexes, v \in Values :
       t \in DOMAIN sp /\ SetEntry(t, k, v)
  \/ \E t \in {"a", "b"}, k \in SmallIndexes :
       t \in DOMAIN sp /\ RemoveEntry(t, k)
  \/ \E t \in {"a", "b"} : t \in DOMAIN sp /\ Clear(t)
  \/ DenseCopy("e", "d")
  \/ \E t \in {"d", "e"}, that \in {"d", "e"} : DenseAssignment(t, that)
  \/ \E t \in {"d", "e"}, k \in SmallIndexes, v \in Values : DenseStore(t, k, v)
  \/ \E t \in {"d", "e"} : DenseClear(t)
  \/ \E t \in {"d", "e"}, f \in NonZero : DenseTimes(t, f)

SpecCopy == InitCopy /\ [][NextCopy]_vars

(***************************************************************************)
(* The persisting program.  It is either sparse: a vector a that is built  *)
(* up and persisted, and a vector b of the same dimension that is only     *)
(* resurrected; or dense: d, which is written and persisted, and e, one    *)
(* cell larger.  It starts without a file, in a directory where none can   *)
(* be created, or with a file of the other representation.                 *)
(***************************************************************************)
NoFileReadOnly == [NoFile EXCEPT !.writable = FALSE]

DenseFile ==
  densePersist(DenseVector(EmptyMachine, "d", SmallDim), "d", NoFile)

SparseFile ==
  LET m == SparseVector(EmptyMachine, "a", SmallDim, DefaultActiveLength)
  IN  persist(setEntry(m, "a", 0, 1), "a", NoFile)

InitPersist ==
  \/ \E ca \in 0 .. MaxInitCap, f \in {NoFile, NoFileReadOnly, DenseFile} :
       StartsWithFile(
         SparseVector(SparseVector(EmptyMachine, "a", SmallDim, ca),
                      "b", SmallDim, ca),
         Unobserved, f)
  \/ \E f \in {NoFile, NoFileReadOnly, SparseFile} :
       StartsWithFile(
         DenseVector(DenseVector(EmptyMachine, "d", SmallDim),
                     "e", SmallDim + 1),
         Unobserved, f)

NextPersist ==
  \/ \E k \in SmallIndexes, v \in Values :
       "a" \in DOMAIN sp /\ SetEntry("a", k, v)
  \/ \E k \in SmallIndexes : "a" \in DOMAIN sp /\ RemoveEntry("a", k)
  \/ "a" \in DOMAIN sp /\ SubstractToSelf("a", "a")
  \/ \E t \in {"a", "b"} : Persist(t)
  \/ \E t \in {"a", "b"} : Resurrect(t)
  \/ \E k \in SmallIndexes, v \in Values : DenseStore("d", k, v)
  \/ \E t \in {"d", "e"} : DensePersist(t)
  \/ \E t \in {"d", "e"} : DenseResurrect(t)

SpecPersist == InitPersist /\ [][NextPersist]_vars

(***************************************************************************)
(* The program that breaks preconditions.  It is either sparse: a vector a *)
(* of dimension Dim, indexed also just outside 0 .. Dim - 1, and a vector  *)
(* b of dimension SmallDim with which a is combined; or the same with the  *)
(* dense vectors d and e.  It observes its calls.                          *)
(***************************************************************************)
AnyIndexes == -1 .. Dim

InitPrecondition ==
  \/ \E ca \in 0 .. MaxInitCap :
       Starts(SparseVector(SparseVector(EmptyMachine, "a", Dim, ca),
                           "b", SmallDim, DefaultActiveLength), Observing)
  \/ Starts(DenseVector(DenseVector(EmptyMachine, "d", Dim), "e", SmallDim),
            Observing)

NextPrecondition ==
  \/ \E k \in AnyIndexes, v \in Values : "a" \in DOMAIN sp /\ SetEntry("a", k, v)
  \/ \E k \in AnyIndexes : "a" \in DOMAIN sp /\ RemoveEntry("a", k)
  \/ \E k \in AnyIndexes : "a" \in DOMAIN sp /\ GetEntry("a", k)
  \/ \E k \in SmallIndexes, v \in {0, 1} :
       "b" \in DOMAIN sp /\ SetEntry("b", k, v)
  \/ \E f \in NonZero : "a" \in DOMAIN sp /\ AddToSelf("a", f, "b")
  \/ "a" \in DOMAIN sp /\ SubstractToSelf("a", "b")
  \/ "a" \in DOMAIN sp /\ EbeMultiplyToSelf("a", "b")
  \/ "a" \in DOMAIN sp /\ EbeDivideToSelf("a", "b")
  \/ "a" \in DOMAIN sp /\ Dot("a", "b")
  \/ "a" \in DOMAIN sp /\ Set("a", "b")
  \/ \E v \in NonZero : "a" \in DOMAIN sp /\ SetValue("a", "b", v)
  \/ \E k \in AnyIndexes, v \in Values : DenseStore("d", k, v)
  \/ \E k \in AnyIndexes : DenseAt("d", k)
  \/ \E k \in SmallIndexes, v \in {0, 1} : DenseStore("e", k, v)
  \/ DenseDot("d", "e")
  \/ DensePlus("d", "e")
  \/ DenseMinus("d", "e")
  \/ DenseSet("d", "e")

SpecPrecondition == InitPrecondition /\ [][NextPrecondition]_vars

(***************************************************************************)
(* The restoring program: a sparse vector a that is built up and           *)
(* persisted, a vector b of the same dimension that is built up too and    *)
(* resurrected whatever it holds, and a fresh vector c of a larger         *)
(* dimension that is resurrected.                                          *)
(***************************************************************************)
InitRestore ==
  \E ca \in 0 .. MaxInitCap :
    Starts(SparseVector(
             SparseVector(SparseVector(EmptyMachine, "a", SmallDim, ca),
                          "b", SmallDim, ca),
             "c", SmallDim + 1, ca),
           Unobserved)

NextRestore ==
  \/ \E k \in SmallIndexes, v \in {0, 1} : SetEntry("a", k, v)
  \/ \E k \in SmallIndexes, v \in {0, -1} : SetEntry("b", k, v)
  \/ Persist("a")
  \/ ResurrectInto("b")
  \/ ResurrectInto("c")

SpecRestore == InitRestore /\ [][NextRestore]_vars
(***************************************************************************)
(* Properties of the sparse vector.                                        *)
(***************************************************************************)
\* no live cell holds the content of dead storage: no operation read one
LiveCellsDeterminate ==
  \A t \in DOMAIN sp :
    /\ \A k \in 0 .. (dimension(M, t) - 1) : indexesPositionAt(M, t, k) # Indeterminate
    /\ \A p \in Positions(M, t) :
         /\ activeIndexesAt(M, t, p) # Indeterminate
         /\ valuesAt(M, t, p) # Indeterminate

\* index k is not an active entry of t
AbsentFrom(m, t, k) ==
  /\ indexesPositionAt(m, t, k) = Absent
  /\ k \notin ActiveSet(m, t)

\* getEntry(k) after setEntry(k, v)
SetThenGet(m, t, k, v) ==
  LET m2 == setEntry(m, t, k, v)
  IN  IF v # 0
      THEN getEntry(m2, t, k) = v
      ELSE getEntry(m2, t, k) = 0 /\ AbsentFrom(m2, t, k)

\* C1: immediately after setEntry(k, v) on any reachable vector, getEntry(k)
\* returns v when v # 0, and returns 0 when v = 0, k then being absent from
\* the active set: in the state the call left, and for every call that could
\* be made next.
C1_SetEntryThenGetEntry ==
  /\ (last.op = "setEntry" /\ obs.on) =>
        IF obs.val # 0
        THEN getEntry(M, last.this, obs.idx) = obs.val
        ELSE /\ getEntry(M, last.this, obs.idx) = 0
             /\ AbsentFrom(M, last.this, obs.idx)
  /\ \A t \in DOMAIN sp, k \in Indexes, v \in Values : SetThenGet(M, t, k, v)

\* setEntry(k, 0) has just removed the middle one of three active entries, one
\* of the two left holding an explicit zero
C1_Witness ==
  /\ last.op = "setEntry"
  /\ obs.val = 0
  /\ obs.pos = 1
  /\ nbActiveEntries(M, "a") = 2
  /\ \E p \in Positions(M, "a") : valuesAt(M, "a", p) = 0

\* setEntry(k, v) with v # 0 has just overwritten an active entry
C1_WitnessOverwrite ==
  /\ last.op = "setEntry"
  /\ obs.val # 0
  /\ obs.pos # Absent
  /\ getEntry(M, "a", obs.idx) = obs.val

\* the index-position map and the active arrays of t agree
IndexPositionAgree(m, t) ==
  /\ \A i \in Positions(m, t) :
       indexesPositionAt(m, t, activeIndexesAt(m, t, i)) = i
  /\ \A k \in 0 .. (dimension(m, t) - 1) :
       k \notin ActiveSet(m, t) => indexesPositionAt(m, t, k) = Absent

\* C2: after any sequence of the mutators, indexesPosition[activeIndexes[i]]
\* = i for every i < nbActive, and every index that is not active has
\* indexesPosition = -1.
C2_IndexPositionInvariant == \A t \in DOMAIN sp : IndexPositionAgree(M, t)

\* removeEntry has just swap-removed the middle one of three active entries
C2_Witness ==
  /\ last.op = "removeEntry"
  /\ last.removed = 1
  /\ nbActiveEntries(M, "a") = 2

\* removeEntry has just removed the first of three active entries
C2_WitnessFirst ==
  /\ last.op = "removeEntry"
  /\ last.removed = 0
  /\ nbActiveEntries(M, "a") = 2

\* removeEntry has just removed the last of three active entries
C2_WitnessLast ==
  /\ last.op = "removeEntry"
  /\ last.removed = 2
  /\ nbActiveEntries(M, "a") = 2

\* C4: every active entry of a sparse vector has a non-zero value.
C4_NoExplicitZero ==
  \A t \in DOMAIN sp : \A p \in Positions(M, t) : valuesAt(M, t, p) # 0

\* the machine after the step
Mp == [heap |-> heap', sp |-> sp', dn |-> dn']

\* a step in which setEntry appends a new entry to its receiver keeps every
\* pair stored before, at its position, and counts one entry more, within
\* the capacity and the arrays the step leaves
AppendKeepsEntries ==
  (last'.op = "setEntry" /\ obs'.on /\ obs'.val # 0 /\ obs'.pos = Absent) =>
    LET t == last'.this
    IN  /\ \A k \in Indexes :
             indexesPositionAt(M, t, k) # Absent =>
               /\ getEntry(Mp, t, k) = getEntry(M, t, k)
               /\ indexesPositionAt(Mp, t, k) = indexesPositionAt(M, t, k)
        /\ getEntry(Mp, t, obs'.idx) = obs'.val
        /\ nbActiveEntries(Mp, t) = nbActiveEntries(M, t) + 1
        /\ nbActiveEntries(Mp, t) <= Mp.sp[t].activeIndexesLength
        /\ Len(Mp.heap[Mp.sp[t].activeIndexes]) = Mp.sp[t].activeIndexesLength
        /\ Len(Mp.heap[Mp.sp[t].values]) = Mp.sp[t].activeIndexesLength

\* C5: when setEntry appends an entry, also beyond the current active
\* capacity, every index active before keeps its value and its position,
\* nbActive increases by exactly one and nbActive <= activeIndexesLength
\* holds afterwards.
C5_GrowthKeepsEntries == [][AppendKeepsEntries]_vars

\* setEntry has just appended a third entry and allocate replaced the arrays
C5_Witness ==
  /\ last.op = "setEntry"
  /\ obs.pos = Absent
  /\ obs.val # 0
  /\ obs.grew
  /\ nbActiveEntries(M, "a") = 3

C6_WitnessFewer ==
  /\ last.op = "dot"
  /\ last.ret # 0
  /\ nbActiveEntries(M, "a") < nbActiveEntries(M, "b")


(***************************************************************************)
(* Copies.                                                                 *)
(***************************************************************************)
\* the logical content of the object t, sparse or dense, with its dimension
Logical(m, t) ==
  IF t \in DOMAIN m.sp
  THEN [dimension |-> dimension(m, t), content |-> Content(m, t)]
  ELSE [dimension |-> capacityOf(m, t), content |-> DenseContent(m, t)]

Objects(m) == DOMAIN m.sp \cup DOMAIN m.dn

\* right after a copy construction or an assignment the receiver equals the
\* original
CopyEqualsOriginal ==
  last.op \in {"copy", "assign"} =>
    Logical(M, last.this) = Logical(M, last.that)

\* a call changes the content of no object but its receiver, and an
\* assignment to itself changes nothing
MutationIsLocal ==
  \A t \in Objects(M) \cap Objects(Mp) :
    (t # last'.this \/ (last'.op = "assign" /\ last'.that = t)) =>
       Logical(Mp, t) = Logical(M, t)

\* C7: after copy construction or assignment of a DenseVector or a
\* SparseVector the copy has the dimension and the value at every index of
\* the original, and a later mutation of either of the two leaves every value
\* of the other unchanged.
C7_DeepCopies == [](CopyEqualsOriginal) /\ [][MutationIsLocal]_vars

\* b was copy-constructed from a, one of them was mutated since and they differ
C7_Witness ==
  /\ {"a", "b"} \subseteq DOMAIN sp
  /\ last.op = "setEntry"
  /\ nbActiveEntries(M, "a") = 2
  /\ nbActiveEntries(M, "b") = 1
  /\ Content(M, "a") # Content(M, "b")

\* an assignment between sparse vectors that replaced differing content
C7_WitnessAssign ==
  /\ last.op = "assign"
  /\ last.this = "a"
  /\ last.that = "b"
  /\ nbActiveEntries(M, "a") = 2
  /\ sp["a"].activeIndexesLength # 0

\* the dense vectors after a copy and a store into one: they differ
C7_WitnessDense ==
  /\ {"d", "e"} \subseteq DOMAIN dn
  /\ last.op = "at"
  /\ last.this = "e"
  /\ DenseContent(M, "d") # DenseContent(M, "e")

(***************************************************************************)
(* Persistence.                                                            *)
(***************************************************************************)
\* the (index, value) pairs t holds
ActivePairs(m, t) ==
  {<<activeIndexesAt(m, t, p), valuesAt(m, t, p)>> : p \in Positions(m, t)}

\* t is as its constructor left it, whatever its active capacity
Fresh(m, t) ==
  /\ nbActiveEntries(m, t) = 0
  /\ \A k \in 0 .. (dimension(m, t) - 1) : indexesPositionAt(m, t, k) = Absent

\* a resurrect into a fresh sparse vector, from the file that persist writes
\* for a vector s as it is now, makes the receiver equal to s
RoundTrip ==
  ( /\ last'.op = "resurrect"
    /\ last'.this \in DOMAIN sp
    /\ Fresh(M, last'.this) ) =>
      \A s \in DOMAIN sp :
        ( /\ file.exists
          /\ file.words = sparseImage(M, s)
          /\ dimension(M, s) = dimension(M, last'.this) ) =>
            /\ last'.status = "ok"
            /\ nbActiveEntries(Mp, last'.this) = nbActiveEntries(M, s)
            /\ Content(Mp, last'.this) = Content(M, s)
            /\ ActivePairs(Mp, last'.this) = ActivePairs(M, s)

\* C3: persisting a sparse vector s and resurrecting the file into a freshly
\* constructed sparse vector of the same dimension gives a vector with the
\* active count of s and getEntry(i) = s.getEntry(i) for every index i,
\* whatever the order of the active arrays of s.
C3_PersistResurrectRoundTrip == [][RoundTrip]_vars

\* b was resurrected from the file of a, whose two entries are not in index
\* order
C3_Witness ==
  /\ last.op = "resurrect"
  /\ last.this = "b"
  /\ last.status = "ok"
  /\ file.words = sparseImage(M, "a")
  /\ nbActiveEntries(M, "a") = 2
  /\ activeIndexesAt(M, "a", 0) = 1
  /\ Content(M, "b") = Content(M, "a")
  /\ valuesAt(M, "a", 0) # valuesAt(M, "a", 1)

\* the same after a removal by swap and with a growth of the receiver
C3_WitnessGrowth ==
  /\ last.op = "resurrect"
  /\ last.this = "b"
  /\ file.words = sparseImage(M, "a")
  /\ nbActiveEntries(M, "b") = 1
  /\ activeIndexesAt(M, "b", 0) = 1
  /\ sp["b"].activeIndexesLength > 0

\* the representation tag the resurrect of object t expects
OwnTag(t) == IF t \in DOMAIN sp THEN SparseTag ELSE DenseTag

FileTag == read(file.words, 1, IntWidth)

\* a resurrect without a file exits; with a file of the other representation
\* it fails; a dense one with a file of another capacity fails
ResurrectFails ==
  last.op = "resurrect" =>
    /\ ~file.exists => last.status = "exit"
    /\ (file.exists /\ FileTag # OwnTag(last.this)) => last.status = "assert"
    /\ ( /\ file.exists
         /\ last.this \in DOMAIN dn
         /\ FileTag = DenseTag
         /\ read(file.words, 2, IntWidth) # capacityOf(M, last.this) ) =>
           last.status = "assert"

\* a resurrect that fails leaves every cell as it was
FailedResurrectWritesNothing ==
  (last'.op = "resurrect" /\ last'.status # "ok") =>
     UNCHANGED <<heap, sp, dn>>

\* C10: resurrect ends the process when the file cannot be opened; it ends in
\* a failure when the tag of the file is that of the other representation
\* and, for a dense receiver, when the stored capacity is not the receiver's;
\* in the two latter cases no cell of the receiver is overwritten.
C10_ResurrectFailures ==
  [](ResurrectFails) /\ [][FailedResurrectWritesNothing]_vars

\* a sparse vector with entries was asked to resurrect a dense file
C10_Witness ==
  /\ last.op = "resurrect"
  /\ last.this = "b"
  /\ last.status = "assert"
  /\ FileTag = DenseTag
  /\ nbActiveEntries(M, "a") = 2

\* a dense vector was asked to resurrect a sparse file
C10_WitnessDenseTag ==
  /\ last.op = "resurrect"
  /\ last.this = "d"
  /\ last.status = "assert"
  /\ FileTag = SparseTag
  /\ DenseContent(M, "d") # [k \in SmallIndexes |-> 0]

\* a dense vector was asked to resurrect the file of a larger one
C10_WitnessCapacity ==
  /\ last.op = "resurrect"
  /\ last.this = "d"
  /\ last.status = "assert"
  /\ FileTag = DenseTag
  /\ read(file.words, 2, IntWidth) = SmallDim + 1
  /\ DenseContent(M, "d") # [k \in SmallIndexes |-> 0]

\* there was no file to resurrect from
C10_WitnessNoFile ==
  /\ last.op = "resurrect"
  /\ last.status = "exit"
  /\ ~file.exists

(***************************************************************************)
(* Preconditions.                                                          *)
(***************************************************************************)
\* the calls that combine the receiver with another vector and assert that
\* the dimensions are equal
AssertingCombinations ==
  {"dot", "plus", "minus", "set", "addToSelf", "substractToSelf",
   "ebeMultiplyToSelf", "setValue"}

Mismatched ==
  /\ last.that # ""
  /\ Logical(M, last.this).dimension # Logical(M, last.that).dimension

\* the combinations that assert equal dimensions fail on vectors of
\* different dimensions
DimensionMismatchAsserts ==
  (last.op \in AssertingCombinations /\ Mismatched) => last.status = "assert"

\* C8: every operation that combines two vectors of different declared
\* dimension (dense dot, +, -, set; sparse dot, addToSelf, substractToSelf,
\* ebeMultiplyToSelf, ebeDivideToSelf, set(that), set(that, value)) ends in a
\* failure at the call and returns no result.
C8_DimensionMismatchFailsFast ==
  (last.op \in AssertingCombinations \cup {"ebeDivideToSelf"} /\ Mismatched) =>
     last.status \in {"assert", "exit", "signal"}

IndexedCalls == {"at", "getEntry", "setEntry", "removeEntry"}

OutOfRange ==
  obs.idx < 0 \/ obs.idx >= Logical(M, last.this).dimension

\* the dense indexed access asserts that the index is in range
DenseOutOfRangeAsserts ==
  (last.op = "at" /\ OutOfRange) => last.status = "assert"

\* C9: for every index outside [0, dimension), DenseVector operator[] / at
\* and SparseVector getEntry, setEntry and removeEntry end in a failure at
\* the call and return no value.
C9_OutOfRangeFailsFast ==
  (last.op \in IndexedCalls /\ OutOfRange) =>
     last.status \in {"assert", "exit", "signal"}

(***************************************************************************)
(* Restoring.                                                              *)
(***************************************************************************)
\* the file is a sparse snapshot
SparseSnapshot == file.exists /\ FileTag = SparseTag

StoredDimension == read(file.words, 2, IntWidth)

StoredCount == read(file.words, 3, IntWidth)

\* the (index, value) pairs the snapshot holds
StoredPairs ==
  {<<read(file.words, 3 + p, IntWidth),
     read(file.words, 3 + StoredCount + p, TWidth)>> : p \in 1 .. StoredCount}

\* C11: a SparseVector that resurrects a sparse snapshot whose stored
\* dimension is not its own does not fail: the stored dimension is only read
\* and logged, and the stored pairs are loaded into the receiver.
C11_SparseDimensionNotEnforced ==
  ( /\ last.op = "resurrect"
    /\ last.this \in DOMAIN sp
    /\ SparseSnapshot
    /\ StoredDimension # dimension(M, last.this) ) =>
      /\ last.status = "ok"
      /\ StoredPairs \subseteq ActivePairs(M, last.this)

\* no index occurs twice among the active indexes of t
NoIndexTwice(m, t) ==
  \A p \in Positions(m, t), q \in Positions(m, t) :
    activeIndexesAt(m, t, p) = activeIndexesAt(m, t, q) => p = q

\* C14: after resurrect on a SparseVector of the snapshot's dimension,
\* whatever it held, its active (index, value) pairs are exactly the
\* snapshot's, no index occurs twice among its active indexes, and
\* indexesPosition[activeIndexes[i]] = i for every i < nbActive.
C14_ResurrectReplacesContent ==
  ( /\ last.op = "resurrect"
    /\ last.status = "ok"
    /\ last.this \in DOMAIN sp
    /\ SparseSnapshot
    /\ StoredDimension = dimension(M, last.this) ) =>
      /\ ActivePairs(M, last.this) = StoredPairs
      /\ NoIndexTwice(M, last.this)
      /\ \A i \in Positions(M, last.this) :
           indexesPositionAt(M, last.this, activeIndexesAt(M, last.this, i)) = i

(***************************************************************************)
(* Arithmetic on two sparse vectors.                                       *)
(***************************************************************************)
\* the object that and its arrays are in m2 what they were in m
Untouched(m, m2, that) ==
  /\ m2.sp[that] = m.sp[that]
  /\ Content(m2, that) = Content(m, that)
  /\ ActivePairs(m2, that) = ActivePairs(m, that)

\* what t.ebeMultiplyToSelf(that) leaves, called in the machine m
EbeMultiplied(m, t, that) ==
  LET out == ebeMultiplyToSelf(m, t, that)
  IN  /\ out.status = "ok"
      /\ \A k \in 0 .. (dimension(m, t) - 1) :
           /\ getEntry(out.m, t, k) = getEntry(m, t, k) * getEntry(m, that, k)
           /\ ( /\ k \in ActiveSet(m, t)
                /\ getEntry(m, t, k) * getEntry(m, that, k) = 0 ) =>
                  AbsentFrom(out.m, t, k)
      /\ \A p \in Positions(out.m, t) : valuesAt(out.m, t, p) # 0
      /\ that # t => Untouched(m, out.m, that)

\* C12: a.ebeMultiplyToSelf(b) with equal dimensions visits every active
\* entry once, also the one a swap-removal moves into the position just
\* visited: getEntry(k) becomes old a[k] * b[k] for every k, an active index
\* whose product is zero leaves the active set, no active entry is left with
\* value 0, and b is unchanged.
C12_EbeMultiplyVisitsEveryEntry ==
  \A t \in DOMAIN sp, that \in DOMAIN sp :
    dimension(M, t) = dimension(M, that) => EbeMultiplied(M, t, that)

\* a was multiplied by b; a holds three entries again, of which b lacks the
\* first and the last, the one a removal of the first moves into its place
C12_Witness ==
  /\ last.op \in {"ebeMultiplyToSelf", "setEntry"}
  /\ nbActiveEntries(M, "a") = 3
  /\ getEntry(M, "b", activeIndexesAt(M, "a", 0)) = 0
  /\ getEntry(M, "b", activeIndexesAt(M, "a", 2)) = 0
  /\ getEntry(M, "b", activeIndexesAt(M, "a", 1)) # 0
  /\ nbActiveEntries(ebeMultiplyToSelf(M, "a", "b").m, "a") = 1

\* the call left a with one of its entries, after a removal
C12_WitnessAfter ==
  /\ last.op = "ebeMultiplyToSelf"
  /\ nbActiveEntries(M, "a") = 1
  /\ nbActiveEntries(M, "b") = 1
  /\ activeIndexesAt(M, "a", 0) = activeIndexesAt(M, "b", 0)
  /\ sp["a"].activeIndexesLength = 5

\* what t.addToSelf(factor, that) leaves, called in the machine m
Added(m, t, factor, that) ==
  LET out == addToSelf(m, t, factor, that)
  IN  /\ out.status = "ok"
      /\ \A k \in 0 .. (dimension(m, t) - 1) :
           IF k \in ActiveSet(m, that)
           THEN /\ getEntry(out.m, t, k)
                     = getEntry(m, t, k) + factor * getEntry(m, that, k)
                /\ k \in ActiveSet(out.m, t)
           ELSE getEntry(out.m, t, k) = getEntry(m, t, k)
      /\ that # t => Untouched(m, out.m, that)

\* C13: addToSelf(factor, other) with equal dimensions sets self[k] to
\* old self[k] + factor * other[k] for every index k active in other,
\* creating the entry when it was absent, leaves getEntry(k) of self as it
\* was for every other k, and leaves other, a distinct vector, unchanged.
C13_AddToSelf ==
  \A t \in DOMAIN sp, that \in DOMAIN sp, factor \in Values :
    dimension(M, t) = dimension(M, that) => Added(M, t, factor, that)

\* a.addToSelf(f, b) was called and left a with an entry it did not have and
\* with one that b does not have
C13_Witness ==
  /\ last.op = "addToSelf"
  /\ nbActiveEntries(M, "b") = 2
  /\ nbActiveEntries(M, "a") = 3
  /\ sp["a"].activeIndexesLength = 5
  /\ getEntry(M, "a", activeIndexesAt(M, "b", 0)) = -1
  /\ \E k \in Indexes : AbsentFrom(M, "b", k) /\ getEntry(M, "a", k) = 1

\* what t.set(that) leaves, called in the machine m
SetCopies(m, t, that) ==
  LET out == set(m, t, that)
  IN  /\ out.status = "ok"
      /\ Content(out.m, t) = Content(m, that)
      /\ nbActiveEntries(out.m, t) = nbActiveEntries(m, that)

\* set(that) from another vector of the same dimension copies its content
SetFromAnotherCopies ==
  \A t \in DOMAIN sp, that \in DOMAIN sp :
    (t # that /\ dimension(M, t) = dimension(M, that)) => SetCopies(M, t, that)

\* C15: set(that) with equal dimensions makes getEntry(k) of the receiver
\* that.getEntry(k) as it was before the call, for every k, and nbActive that
\* of that before the call, for every argument, the receiver itself
\* included: a.set(a) leaves a unchanged.
C15_SetCopiesContent ==
  \A t \in DOMAIN sp, that \in DOMAIN sp :
    dimension(M, t) = dimension(M, that) => SetCopies(M, t, that)
====
